---- MODULE Spec2Model ----
(***************************************************************************)
(* File-sync system: the sync client (Client/lib/sync.js, file-watcher.js, *)
(* api.js) and the file routes of the server (Server/routes/files.js, in   *)
(* its two revisions: the path-keyed upload handler and the hash-keyed     *)
(* upload handler).                                                        *)
(*                                                                         *)
(* SpecServer  : the server's request handlers, one action per await point,*)
(*               requests of several users interleaved; the clock stands   *)
(*               still (no handler of routes/files.js reads a timestamp).  *)
(* SpecWatcher : one device's watcher and upload queue against the server, *)
(*               every request of the device served in one step.           *)
(* SpecSync    : one device's periodic sync, the watcher not started;      *)
(*               another client of the same user changes the server.       *)
(* SpecClient  : watcher and periodic sync together, on one watched file.  *)
(* SpecRequests: the server answering whole requests, one after the other. *)
(* SpecEcho    : watcher and periodic sync on a directory the user leaves  *)
(*               alone: every local file was written by a download.        *)
(***************************************************************************)
EXTENDS Integers, Sequences, FiniteSets, TLC

(* ------------------------------ bounds --------------------------------- *)
\* uuids generateMinioKey may hand out (bounds the rows and the objects)
MaxUuids == 2
\* requests the server handles concurrently
MaxReqs == 2
\* debounce timers pending at once
MaxTimers == 2
\* performSync invocations in flight at once
MaxCycles == 2

(* --------------------------- value domains ----------------------------- *)
Users == {"u1", "u2"}
\* the user the device logs in as (config.USER_EMAIL)
DeviceUser == "u1"
\* paths relative to config.WATCH_DIRECTORY, as sequences of segments
RelPaths == {<<"a.txt">>, <<"docs", "b.txt">>}
\* file contents: byte strings; <<0>> and <<1>> have equal size
Contents == {<<0>>, <<1>>}
NoFile == <<>>
NoUrl == "null"
NoKey == [user |-> "none", uuid |-> 0, filename |-> "none"]

(* ------------------------------ helpers -------------------------------- *)
RECURSIVE calculateFileHash(_)
\* an injective digest of the bytes: 1 followed by the bits, read as a number
calculateFileHash(buffer) ==
  IF buffer = <<>> THEN 1
  ELSE 2 * calculateFileHash(SubSeq(buffer, 1, Len(buffer) - 1)) + buffer[Len(buffer)]

FileSize(buffer) == Len(buffer)

\* path.dirname(relativePath), then remotePath === '.' ? '/' : remotePath
\* a server-side path is [abs, segs]: '/' is [abs |-> TRUE, segs |-> <<>>]
RemotePath(relativePath) ==
  IF Len(relativePath) = 1
    THEN [abs |-> TRUE, segs |-> <<>>]
    ELSE [abs |-> FALSE, segs |-> SubSeq(relativePath, 1, Len(relativePath) - 1)]

\* path.basename(filePath): the originalname of the multipart upload
Basename(relativePath) == relativePath[Len(relativePath)]

\* path.join(filePath, originalname).replace(/\\/g, '/')
FullPath(filePath, originalname) ==
  [abs |-> filePath.abs, segs |-> Append(filePath.segs, originalname)]

\* path.join(config.WATCH_DIRECTORY, file_path): relative to the watch directory
LocalPath(file_path) == file_path.segs

\* a key without the uuidv4 segment: users/<userId>/files/<filename>
generateMinioKey_NoUuid(userId, filename, uuid) ==
  [user |-> userId, uuid |-> 0, filename |-> filename]

\* generateMinioKey: users/<userId>/files/<uuidv4>/<filename>
generateMinioKey(userId, filename, uuid) ==
  [user |-> userId, uuid |-> uuid, filename |-> filename]

\* generateS3Url: the presigned URL of the key or, when presigning fails, the basic
\* URL protocol://endpoint:port/bucket/<key>; either one names the object by its key
generateS3Url(minioKey) == [url_of |-> minioKey]

(* ------------------------------- state --------------------------------- *)
VARIABLES
  handler,      \* which revision of routes/files.js is deployed: 1 or 2
  files,        \* the files table: sequence of rows, id = index
  objects,      \* the bucket: set of [key, body]
  now,          \* server clock (CURRENT_TIMESTAMP, new Date()): a time after 0
  nextUuid,     \* uuidv4 values handed out so far
  reqs,         \* in-flight requests of SpecServer, by slot
  local,        \* the device's watched directory: RelPaths -> content or NoFile
  watcher,      \* file-watcher.js watcher: "null", "watching" or "closed"
  uploadQueue,  \* file-watcher.js uploadQueue
  isProcessing, \* file-watcher.js isProcessing
  timers,       \* pending setTimeout(processUploadQueue, 1000) timers
  batch,        \* the running processUploadQueue: its position and remaining files
  lastSyncAt,   \* sync.js lastSyncAt (0 is null)
  cycles,       \* the performSync invocations in flight, in the order they started
  unlinked,     \* observation: the active records of the files (same path, same
                \* content) the user removed while the watcher ran, their paths
                \* not re-created since
  srvDeleted,   \* observation: paths whose record another client deleted while the
                \* device held the file, and nothing touched since
  hist          \* observation: what the step just taken did (NoEvent: nothing noted)

serverVars == <<files, objects, now, nextUuid>>
watcherVars == <<watcher, uploadQueue, isProcessing, timers, batch>>
syncVars == <<lastSyncAt, cycles>>
vars == <<handler, files, objects, now, nextUuid, reqs, local, watcher,
          uploadQueue, isProcessing, timers, batch, lastSyncAt, cycles,
          unlinked, srvDeleted, hist>>

(* --------------------------- server tables ----------------------------- *)
FileIds == 1..Len(files)

ActiveRows(fs) == {i \in 1..Len(fs) : fs[i].status = "active"}

\* SELECT * FROM files WHERE user_id = $1 AND file_path = $2 AND status = 'active'
SelectByPath(fs, userId, fullPath) ==
  {i \in 1..Len(fs) : /\ fs[i].user_id = userId
                      /\ fs[i].file_path = fullPath
                      /\ fs[i].status = "active"}

\* SELECT * FROM files WHERE user_id = $1 AND file_hash = $2 AND status = 'active'
SelectByHash(fs, userId, fileHash) ==
  {i \in 1..Len(fs) : /\ fs[i].user_id = userId
                      /\ fs[i].file_hash = fileHash
                      /\ fs[i].status = "active"}

\* a SELECT that does not look at the status column
SelectById_AnyStatus(fs, fileId, userId) ==
  {i \in 1..Len(fs) : i = fileId /\ fs[i].user_id = userId}

\* a SELECT that does not look at the user_id column
SelectById_AnyUser(fs, fileId, userId) ==
  {i \in 1..Len(fs) : i = fileId /\ fs[i].status = "active"}

\* SELECT * FROM files WHERE id = $1 AND user_id = $2 AND status = 'active'
SelectById(fs, fileId, userId) ==
  {i \in 1..Len(fs) : /\ i = fileId
                      /\ fs[i].user_id = userId
                      /\ fs[i].status = "active"}

\* a duplicate check by content hash in both revisions
ExistingFile_ByHash(h, fs, userId, fullPath, fileHash) ==
  SelectByHash(fs, userId, fileHash)

\* the duplicate check of the upload handler: by path (revision 1), by hash (revision 2)
ExistingFile(h, fs, userId, fullPath, fileHash) ==
  IF h = 1 THEN SelectByPath(fs, userId, fullPath)
           ELSE SelectByHash(fs, userId, fileHash)

\* the row INSERT INTO files ... RETURNING * creates
NewRow(fs, userId, originalname, fullPath, buffer, minioKey, localUrl, s3Url, t) ==
  [id |-> Len(fs) + 1, user_id |-> userId, filename |-> originalname,
   file_path |-> fullPath, file_size |-> FileSize(buffer),
   file_hash |-> calculateFileHash(buffer), minio_key |-> minioKey,
   local_url |-> localUrl, s3_url |-> s3Url, status |-> "active",
   updated_at |-> t]

\* minioClient.putObject(BUCKET_NAME, minioKey, buffer)
PutObject(objs, minioKey, buffer) ==
  {o \in objs : o.key # minioKey} \cup {[key |-> minioKey, body |-> buffer]}

\* a delete that skips minioClient.removeObject: the object stays in the bucket
RemoveObject_Skipped(objs, minioKey) == objs

\* minioClient.removeObject(BUCKET_NAME, minio_key)
RemoveObject(objs, minioKey) == {o \in objs : o.key # minioKey}

\* UPDATE files SET status = 'deleted', updated_at = CURRENT_TIMESTAMP WHERE id = $2
MarkDeleted(fs, fileId, t) ==
  [fs EXCEPT ![fileId].status = "deleted", ![fileId].updated_at = t]

\* UPDATE files SET local_url = $1, updated_at = CURRENT_TIMESTAMP WHERE id = $2
SetLocalUrl(fs, fileId, localUrl, t) ==
  [fs EXCEPT ![fileId].local_url = localUrl, ![fileId].updated_at = t]

NoS3Url == [url_of |-> NoKey]
Root == [abs |-> TRUE, segs |-> <<>>]
LocalUrls == {NoUrl, "/home/user/sync-folder"}

(* ------------------------------ requests ------------------------------ *)
NoReq == [kind |-> "none", pc |-> "none", user |-> "none", filePath |-> Root,
          name |-> "none", buffer |-> <<>>, localUrl |-> NoUrl, fileId |-> 0,
          key |-> NoKey]

\* the slot a new request takes: the lowest free one
FreeSlot(s) == /\ reqs[s] = NoReq
               /\ \A t \in 1..(s - 1) : reqs[t] # NoReq
\* uploads that have passed the duplicate check and not yet inserted
\* res.status(code).json(...) or next(error): the request is over; code is the status
Respond(s, code) == reqs' = [reqs EXCEPT ![s] = NoReq]

clientVars == <<local, watcher, uploadQueue, isProcessing, timers, batch, lastSyncAt, cycles,
                unlinked, srvDeleted>>

(* ------------------------------ observations --------------------------- *)
\* evs: what the step did. "upload": the server answered `status` to the upload of
\* `path`, whose active rows were `old` before; "batchEnd": a batch ended, the
\* uploads of `failed` had failed in it; "skipped": the download of row `ids` was
\* skipped; "synced": a cycle completed, its downloads of `ids` had failed, the
\* files of records `gone` were unlinked and `deleted` server-deleted before it started;
\* "download" / "list" / "delete": the server answered `status` to that request of
\* `user` naming the record `ids` (list: answered the records `ids`), with `url`;
\* "completeSync": api.completeSync was called with the session id `session`
NoEvent == [evs |-> {}, path |-> <<>>, old |-> {}, status |-> 0, failed |-> {},
            ids |-> {}, gone |-> {}, deleted |-> {}, user |-> "none",
            url |-> NoS3Url, session |-> 0]

(* ----------------- server handlers, one action per await --------------- *)
\* POST /upload up to the duplicate check (both revisions): hash, fullPath, SELECT;
\* 409 (revision 1) or the existing record (revision 2), else generateMinioKey
UploadSelect(s, userId, relativePath, buffer, localUrl) ==
  LET filePath == RemotePath(relativePath)
      originalname == Basename(relativePath)
      fileHash == calculateFileHash(buffer)
      fullPath == FullPath(filePath, originalname)
      existingFile == ExistingFile(handler, files, userId, fullPath, fileHash)
      req == [NoReq EXCEPT !.kind = "upload", !.user = userId, !.filePath = filePath,
                           !.name = originalname, !.buffer = buffer,
                           !.localUrl = localUrl]
  IN
  /\ FreeSlot(s)
  /\ handler = 1 => localUrl = NoUrl
  /\ IF existingFile # {}
       THEN IF handler = 1
         THEN /\ Respond(s, 409)
              /\ UNCHANGED <<serverVars>>
         ELSE \E r \in existingFile :
                IF localUrl # NoUrl /\ files[r].local_url # localUrl
                  THEN /\ reqs' = [reqs EXCEPT ![s] =
                                     [req EXCEPT !.pc = "localUrl", !.fileId = r]]
                       /\ UNCHANGED <<serverVars>>
                  ELSE /\ Respond(s, 200)
                       /\ UNCHANGED <<serverVars>>
       ELSE /\ nextUuid < MaxUuids
            /\ nextUuid' = nextUuid + 1
            /\ reqs' = [reqs EXCEPT ![s] =
                 [req EXCEPT !.pc = "putObject",
                    !.key = generateMinioKey(userId, originalname, nextUuid + 1)]]
            /\ UNCHANGED <<files, objects, now>>
  /\ UNCHANGED <<handler, clientVars>>
  /\ hist' = NoEvent

\* revision 2: UPDATE files SET local_url of the existing record, then the 200 answer
UploadSetLocalUrl(s, dbOk) ==
  LET req == reqs[s] IN
  /\ req.kind = "upload" /\ req.pc = "localUrl"
  /\ IF dbOk
       THEN /\ files' = SetLocalUrl(files, req.fileId, req.localUrl, now)
            /\ Respond(s, 200)
       ELSE /\ Respond(s, 500)
            /\ UNCHANGED <<files>>
  /\ UNCHANGED <<handler, objects, now, nextUuid, clientVars>>
  /\ hist' = NoEvent

\* await minioClient.putObject(...)
UploadPutObject(s, minioOk) ==
  LET req == reqs[s] IN
  /\ req.kind = "upload" /\ req.pc = "putObject"
  /\ IF minioOk
       THEN /\ objects' = PutObject(objects, req.key, req.buffer)
            /\ reqs' = [reqs EXCEPT ![s].pc = "insert"]
       ELSE /\ Respond(s, 500)
            /\ UNCHANGED objects
  /\ UNCHANGED <<handler, files, now, nextUuid, clientVars>>
  /\ hist' = NoEvent

\* generateS3Url (revision 2), INSERT INTO files ... RETURNING *, 201
UploadInsert(s, dbOk) ==
  LET req == reqs[s] IN
  /\ req.kind = "upload" /\ req.pc = "insert"
  /\ IF dbOk
       THEN LET s3Url == IF handler = 1 THEN NoS3Url ELSE generateS3Url(req.key)
                row == NewRow(files, req.user, req.name,
                              FullPath(req.filePath, req.name), req.buffer,
                              req.key, req.localUrl, s3Url, now)
            IN /\ files' = Append(files, row)
               /\ Respond(s, 201)
       ELSE /\ Respond(s, 500)
            /\ UNCHANGED <<files>>
  /\ UNCHANGED <<handler, objects, now, nextUuid, clientVars>>
  /\ hist' = NoEvent

\* GET /:fileId/download up to the SELECT: 404, or on to presignedGetObject
DownloadSelect(s, userId, fileId) ==
  /\ FreeSlot(s)
  /\ IF SelectById(files, fileId, userId) = {}
       THEN /\ Respond(s, 404)
            /\ hist' = NoEvent
       ELSE /\ reqs' = [reqs EXCEPT ![s] =
                 [NoReq EXCEPT !.kind = "download", !.pc = "presign", !.user = userId,
                               !.fileId = fileId, !.key = files[fileId].minio_key]]
            /\ hist' = NoEvent
  /\ UNCHANGED <<handler, serverVars, clientVars>>

\* await minioClient.presignedGetObject(...), res.json({file, downloadUrl})
DownloadPresign(s, minioOk) ==
  LET req == reqs[s] IN
  /\ req.kind = "download" /\ req.pc = "presign"
  /\ Respond(s, IF minioOk THEN 200 ELSE 500)
  /\ hist' = [NoEvent EXCEPT !.evs = {"download"}, !.user = req.user,
                             !.ids = {req.fileId},
                             !.status = IF minioOk THEN 200 ELSE 500,
                             !.url = IF minioOk THEN generateS3Url(req.key)
                                     ELSE NoS3Url]
  /\ UNCHANGED <<handler, serverVars, clientVars>>

\* GET /: the requesting user's active rows (path '/', no LIKE filter)
ListFiles(s, userId) ==
  /\ FreeSlot(s)
  /\ Respond(s, 200)
  /\ UNCHANGED <<handler, serverVars, clientVars>>
  /\ hist' = NoEvent

\* DELETE /:fileId up to the SELECT: 404, or on to removeObject
DeleteSelect(s, userId, fileId) ==
  /\ FreeSlot(s)
  /\ IF SelectById(files, fileId, userId) = {}
       THEN Respond(s, 404)
       ELSE /\ reqs' = [reqs EXCEPT ![s] =
                 [NoReq EXCEPT !.kind = "delete", !.pc = "removeObject", !.user = userId,
                               !.fileId = fileId, !.key = files[fileId].minio_key]]
  /\ UNCHANGED <<handler, serverVars, clientVars>>
  /\ hist' = NoEvent

\* await minioClient.removeObject(BUCKET_NAME, file.minio_key)
DeleteRemoveObject(s, minioOk) ==
  LET req == reqs[s] IN
  /\ req.kind = "delete" /\ req.pc = "removeObject"
  /\ IF minioOk
       THEN /\ objects' = RemoveObject(objects, req.key)
            /\ reqs' = [reqs EXCEPT ![s].pc = "update"]
       ELSE /\ Respond(s, 500)
            /\ UNCHANGED objects
  /\ UNCHANGED <<handler, files, now, nextUuid, clientVars>>
  /\ hist' = NoEvent

\* UPDATE files SET status = 'deleted' WHERE id = $2, then the 200 answer
DeleteUpdate(s, dbOk) ==
  LET req == reqs[s] IN
  /\ req.kind = "delete" /\ req.pc = "update"
  /\ IF dbOk
       THEN /\ files' = MarkDeleted(files, req.fileId, now)
            /\ Respond(s, 200)
       ELSE /\ Respond(s, 500)
            /\ UNCHANGED <<files>>
  /\ UNCHANGED <<handler, objects, now, nextUuid, clientVars>>
  /\ hist' = NoEvent

Slots == 1..MaxReqs

(* ------------- the server as the device sees it: whole requests -------- *)
\* what POST /upload answers when nothing fails: 409 or 201 (revision 1),
\* 200 with the existing record or 201 (revision 2)
UploadStatus(userId, relativePath, buffer) ==
  IF ExistingFile(handler, files, userId,
                  FullPath(RemotePath(relativePath), Basename(relativePath)),
                  calculateFileHash(buffer)) # {}
    THEN IF handler = 1 THEN 409 ELSE 200
    ELSE 201

\* POST /upload served from the SELECT to the answer, no localUrl in the form
\* (api.uploadFile appends only 'file' and 'filePath'); the clock has moved on
ServeUpload(userId, relativePath, buffer) ==
  LET originalname == Basename(relativePath)
      fullPath == FullPath(RemotePath(relativePath), originalname)
      minioKey == generateMinioKey(userId, originalname, nextUuid + 1)
  IN
  IF UploadStatus(userId, relativePath, buffer) = 201
    THEN /\ nextUuid < MaxUuids
         /\ nextUuid' = nextUuid + 1
         /\ objects' = PutObject(objects, minioKey, buffer)
         /\ files' = Append(files,
                NewRow(files, userId, originalname, fullPath, buffer, minioKey, NoUrl,
                       IF handler = 1 THEN NoS3Url ELSE generateS3Url(minioKey),
                       now + 1))
         /\ now' = now + 1
    ELSE UNCHANGED serverVars

\* DELETE /:fileId served from the SELECT to the answer
ServeDelete(userId, fileId) ==
  IF SelectById(files, fileId, userId) = {}
    THEN UNCHANGED serverVars
    ELSE /\ objects' = RemoveObject(objects, files[fileId].minio_key)
         /\ files' = MarkDeleted(files, fileId, now + 1)
         /\ now' = now + 1
         /\ UNCHANGED nextUuid

\* GET /:fileId/download, then GET downloadUrl: the bytes, or NoFile for a 404
ServeDownload(userId, fileId) ==
  IF SelectById(files, fileId, userId) = {}
    THEN NoFile
    ELSE LET stored == {o \in objects : o.key = files[fileId].minio_key}
         IN IF stored = {} THEN NoFile ELSE (CHOOSE o \in stored : TRUE).body

RECURSIVE SeqOfSet(_)
SeqOfSet(S) ==
  IF S = {} THEN <<>>
  ELSE LET m == CHOOSE x \in S : \A y \in S : x <= y
       IN <<m>> \o SeqOfSet(S \ {m})

\* POST /sync/init: the user's active rows changed after lastSyncAt (all of them
\* when the payload carries none), in id order
ChangedFiles(userId, since) ==
  SeqOfSet({i \in ActiveRows(files) : /\ files[i].user_id = userId
                                        /\ files[i].updated_at > since})

(* ------------- whole requests of any user, with their answers ---------- *)
\* SELECT ... FROM files WHERE user_id = $1 AND status = 'active' (path '/': no LIKE)
SelectList(fs, userId) ==
  {i \in 1..Len(fs) : fs[i].user_id = userId /\ fs[i].status = "active"}

\* POST /upload with the form fields file, filePath and localUrl, nothing failing
RequestUpload(userId, relativePath, buffer, localUrl) ==
  LET originalname == Basename(relativePath)
      fullPath == FullPath(RemotePath(relativePath), originalname)
      fileHash == calculateFileHash(buffer)
      existingFile == ExistingFile(handler, files, userId, fullPath, fileHash)
      minioKey == generateMinioKey(userId, originalname, nextUuid + 1)
      asked == [NoEvent EXCEPT !.evs = {"upload"}, !.user = userId,
                               !.path = relativePath]
  IN
  /\ handler = 1 => localUrl = NoUrl
  /\ IF existingFile # {}
       THEN IF handler = 1
         THEN /\ hist' = [asked EXCEPT !.status = 409]
              /\ UNCHANGED serverVars
         ELSE \E r \in existingFile :
                /\ IF localUrl # NoUrl /\ files[r].local_url # localUrl
                     THEN /\ files' = SetLocalUrl(files, r, localUrl, now + 1)
                          /\ now' = now + 1
                     ELSE UNCHANGED <<files, now>>
                /\ hist' = [asked EXCEPT !.status = 200, !.ids = {r},
                                         !.url = generateS3Url(files[r].minio_key)]
                /\ UNCHANGED <<objects, nextUuid>>
       ELSE /\ nextUuid < MaxUuids
            /\ nextUuid' = nextUuid + 1
            /\ objects' = PutObject(objects, minioKey, buffer)
            /\ files' = Append(files,
                   NewRow(files, userId, originalname, fullPath, buffer, minioKey,
                          localUrl,
                          IF handler = 1 THEN NoS3Url ELSE generateS3Url(minioKey),
                          now + 1))
            /\ now' = now + 1
            /\ hist' = [asked EXCEPT !.status = 201, !.ids = {Len(files) + 1},
                          !.url = IF handler = 1 THEN NoS3Url
                                  ELSE generateS3Url(minioKey)]
  /\ UNCHANGED <<handler, reqs, clientVars>>

\* GET /:fileId/download, nothing failing: 404, or the file and a presigned URL
RequestDownload(userId, fileId) ==
  LET asked == [NoEvent EXCEPT !.evs = {"download"}, !.user = userId,
                               !.ids = {fileId}]
  IN
  /\ hist' = IF SelectById(files, fileId, userId) = {}
               THEN [asked EXCEPT !.status = 404]
               ELSE [asked EXCEPT !.status = 200,
                                  !.url = generateS3Url(files[fileId].minio_key)]
  /\ UNCHANGED <<handler, serverVars, reqs, clientVars>>

\* GET /: the rows of the answer
RequestList(userId) ==
  /\ hist' = [NoEvent EXCEPT !.evs = {"list"}, !.user = userId, !.status = 200,
                             !.ids = SelectList(files, userId)]
  /\ UNCHANGED <<handler, serverVars, reqs, clientVars>>

\* DELETE /:fileId, nothing failing: 404, or removeObject, UPDATE and 200
RequestDelete(userId, fileId) ==
  LET asked == [NoEvent EXCEPT !.evs = {"delete"}, !.user = userId,
                               !.ids = {fileId}]
  IN
  /\ IF SelectById(files, fileId, userId) = {}
       THEN /\ hist' = [asked EXCEPT !.status = 404]
            /\ UNCHANGED serverVars
       ELSE /\ objects' = RemoveObject(objects, files[fileId].minio_key)
            /\ files' = MarkDeleted(files, fileId, now + 1)
            /\ now' = now + 1
            /\ hist' = [asked EXCEPT !.status = 200]
            /\ UNCHANGED nextUuid
  /\ UNCHANGED <<handler, reqs, clientVars>>

(* --------------------------- file-watcher.js --------------------------- *)
\* the file_path the server stores for the upload of a watched file: api.uploadFile
\* sends path.dirname(relativePath) and the file under its basename
FullPathOf(relativePath) == FullPath(RemotePath(relativePath), Basename(relativePath))

\* the records of the device's user stored under a watched path, deleted or not
RowsAt(fs, relativePath) ==
  {i \in DOMAIN fs : fs[i].user_id = DeviceUser /\ LocalPath(fs[i].file_path) = relativePath}

NoBatch == [pc |-> "idle", files |-> <<>>, failed |-> {}]

SeqRange(q) == {q[i] : i \in 1..Len(q)}

\* uploadQueue as an array: push(relativePath) keeps every occurrence
SetAdd_Array(q, relativePath) == Append(q, relativePath)

\* uploadQueue.add(relativePath): a Set keeps insertion order and no duplicates
SetAdd(q, relativePath) ==
  IF relativePath \in SeqRange(q) THEN q ELSE Append(q, relativePath)

\* the ignorePatterns that match a whole path segment of the model's paths
shouldIgnoreFile(relativePath) ==
  \E i \in 1..Len(relativePath) : relativePath[i] \in {"node_modules", ".git"}

\* handleFileChange(filePath, 'add' | 'change') -> queueUpload(filePath):
\* the new queue and the new number of pending timers
handleFileChange(q, t, relativePath) ==
  IF shouldIgnoreFile(relativePath) THEN <<q, t>>
  ELSE <<SetAdd(q, relativePath), t + 1>>

\* a file of the watched directory was written: chokidar emits 'add' / 'change'
\* when the watcher runs
FileWritten(relativePath) ==
  IF watcher = "watching"
    THEN /\ timers < MaxTimers
         /\ uploadQueue' = handleFileChange(uploadQueue, timers, relativePath)[1]
         /\ timers' = handleFileChange(uploadQueue, timers, relativePath)[2]
    ELSE UNCHANGED <<uploadQueue, timers>>

\* startWatcher(): chokidar.watch(config.WATCH_DIRECTORY, {ignoreInitial: true})
StartWatcher ==
  /\ watcher = "null"
  /\ watcher' = "watching"
  /\ hist' = NoEvent
  /\ UNCHANGED <<handler, serverVars, reqs, local, uploadQueue, isProcessing, timers,
                 batch, syncVars, unlinked, srvDeleted>>

\* stopWatcher(): if (watcher) await watcher.close(); chokidar emits no more
\* events, and nothing else of file-watcher.js is touched
StopWatcher ==
  /\ watcher = "watching"
  /\ watcher' = "closed"
  /\ hist' = NoEvent
  /\ UNCHANGED <<handler, serverVars, reqs, local, uploadQueue, isProcessing, timers,
                 batch, syncVars, unlinked, srvDeleted>>

\* the user creates or rewrites a watched file: chokidar 'add' / 'change'
UserWrite(relativePath, buffer) ==
  /\ local[relativePath] # buffer
  /\ local' = [local EXCEPT ![relativePath] = buffer]
  /\ FileWritten(relativePath)
  /\ unlinked' = unlinked \ RowsAt(files, relativePath)
  /\ srvDeleted' = srvDeleted \ {relativePath}
  /\ hist' = NoEvent
  /\ UNCHANGED <<handler, serverVars, reqs, watcher, isProcessing, batch, syncVars>>

\* the user removes a watched file: chokidar 'unlink', which only logs
UserUnlink(relativePath) ==
  /\ local[relativePath] # NoFile
  /\ local' = [local EXCEPT ![relativePath] = NoFile]
  /\ unlinked' = IF watcher = "watching"
                   THEN unlinked \cup
                          {i \in SelectByPath(files, DeviceUser, FullPathOf(relativePath)) :
                             files[i].file_hash = calculateFileHash(local[relativePath])}
                   ELSE unlinked
  /\ srvDeleted' = srvDeleted \ {relativePath}
  /\ hist' = NoEvent
  /\ UNCHANGED <<handler, serverVars, reqs, watcherVars, syncVars>>

\* processUploadQueue without the isProcessing test: a timer that fires during a
\* batch starts another one
ProcessUploadQueue_NoGuard ==
  /\ timers > 0
  /\ timers' = timers - 1
  /\ IF Len(uploadQueue) = 0
       THEN UNCHANGED <<isProcessing, uploadQueue, batch>>
       ELSE /\ isProcessing' = TRUE
            /\ batch' = [pc |-> "file", files |-> uploadQueue, failed |-> {}]
            /\ uploadQueue' = <<>>
  /\ hist' = NoEvent
  /\ UNCHANGED <<handler, serverVars, reqs, local, watcher, syncVars, unlinked,
                 srvDeleted>>

\* a debounce timer fires: processUploadQueue() up to its first await
ProcessUploadQueue ==
  /\ timers > 0
  /\ timers' = timers - 1
  /\ IF isProcessing \/ Len(uploadQueue) = 0
       THEN UNCHANGED <<isProcessing, uploadQueue, batch>>
       ELSE /\ isProcessing' = TRUE
            /\ batch' = [pc |-> "file", files |-> uploadQueue, failed |-> {}]
            /\ uploadQueue' = <<>>
  /\ hist' = NoEvent
  /\ UNCHANGED <<handler, serverVars, reqs, local, watcher, syncVars, unlinked,
                 srvDeleted>>

\* the batch moves on to the next file, or ends: isProcessing = false
BatchAdvance(rest, failed, event) ==
  IF rest = <<>>
    THEN /\ batch' = NoBatch
         /\ isProcessing' = FALSE
         /\ hist' = [event EXCEPT !.evs = @ \cup {"batchEnd"}, !.failed = failed]
    ELSE /\ batch' = [pc |-> "file", files |-> rest, failed |-> failed]
         /\ hist' = event
         /\ UNCHANGED isProcessing

\* one iteration of the for loop: pathExists, api.uploadFile; netOk is whether the
\* request reaches the server and its answer the device
BatchFile(netOk) ==
  LET relativePath == Head(batch.files)
      rest == Tail(batch.files)
      status == UploadStatus(DeviceUser, relativePath, local[relativePath])
      answered == [NoEvent EXCEPT !.evs = {"upload"}, !.path = relativePath,
                     !.status = status,
                     !.old = SelectByPath(files, DeviceUser,
                               FullPath(RemotePath(relativePath),
                                        Basename(relativePath)))]
  IN
  /\ batch.pc = "file"
  /\ IF local[relativePath] = NoFile
       THEN \* continue
            /\ netOk
            /\ BatchAdvance(rest, batch.failed, NoEvent)
            /\ UNCHANGED serverVars
       ELSE IF netOk
         THEN /\ ServeUpload(DeviceUser, relativePath, local[relativePath])
              /\ IF status \in {200, 201}
                   THEN \* uploaded; await the 200 ms delay
                        /\ batch' = [batch EXCEPT !.pc = "delay", !.files = rest]
                        /\ hist' = answered
                        /\ UNCHANGED isProcessing
                   ELSE \* axios rejects the 409: catch, next file
                        BatchAdvance(rest, batch.failed \cup {relativePath}, answered)
         ELSE \* network error: catch, next file
              /\ BatchAdvance(rest, batch.failed \cup {relativePath}, NoEvent)
              /\ UNCHANGED serverVars
  /\ UNCHANGED <<handler, reqs, local, watcher, uploadQueue, timers, syncVars,
                 unlinked, srvDeleted>>

\* the 200 ms delay after an upload is over
BatchDelay ==
  /\ batch.pc = "delay"
  /\ BatchAdvance(batch.files, batch.failed, NoEvent)
  /\ UNCHANGED <<handler, serverVars, reqs, local, watcher, uploadQueue, timers,
                 syncVars, unlinked, srvDeleted>>

(* ------------------------------- sync.js ------------------------------- *)
RemoveAt(q, i) == SubSeq(q, 1, i - 1) \o SubSeq(q, i + 1, Len(q))

\* the local file exists and has the size the server reports: "File unchanged"
SameSize(buffer, fileMetadata) ==
  buffer # NoFile /\ FileSize(buffer) = fileMetadata.file_size

\* performSync() is called (startPeriodicSync's first call or a setInterval tick):
\* api.initSync(config.DEVICE_ID, lastSyncAt) is sent
PerformSync ==
  /\ Len(cycles) < MaxCycles
  /\ cycles' = Append(cycles, [pc |-> "initSync", since |-> lastSyncAt,
                               changedFiles |-> <<>>, serverTime |-> 0,
                               session |-> 0,
                               failed |-> {}, gone |-> unlinked,
                               deleted |-> srvDeleted])
  /\ hist' = NoEvent
  /\ UNCHANGED <<handler, serverVars, reqs, local, watcherVars, lastSyncAt, unlinked,
                 srvDeleted>>

\* syncData.session.id of the answer of POST /sync/init: an id no session of a
\* cycle in flight has (the lowest; the id of a finished cycle stands for a new one)
SessionId(cs) ==
  CHOOSE n \in 1..(Len(cs) + 1) :
    /\ \A j \in 1..Len(cs) : cs[j].session # n
    /\ \A m \in 1..(n - 1) : \E j \in 1..Len(cs) : cs[j].session = m

\* performSync without its try / catch: a failed initSync rejects the promise
\* performSync returned, which nothing handles
InitSync_NoCatch(i, netOk) ==
  LET changed == ChangedFiles(DeviceUser, cycles[i].since) IN
  /\ cycles[i].pc = "initSync"
  /\ cycles' = IF netOk
                 THEN [cycles EXCEPT ![i].changedFiles = changed,
                                     ![i].serverTime = now,
                                     ![i].session = SessionId(cycles),
                                     ![i].pc = IF Len(changed) > 0 THEN "download"
                                               ELSE "completeSync"]
                 ELSE [cycles EXCEPT ![i].pc = "rejected"]
  /\ hist' = NoEvent
  /\ UNCHANGED <<handler, serverVars, reqs, local, watcherVars, lastSyncAt, unlinked,
                 srvDeleted>>

\* a performSync that downloads every active file of the user the server lists,
\* whatever syncData.changedFiles holds
InitSync_DownloadsAll(i, netOk) ==
  LET changed == SeqOfSet(SelectList(files, DeviceUser)) IN
  /\ cycles[i].pc = "initSync"
  /\ cycles' = IF netOk
                 THEN [cycles EXCEPT ![i].changedFiles = changed,
                                     ![i].serverTime = now,
                                     ![i].session = SessionId(cycles),
                                     ![i].pc = IF Len(changed) > 0 THEN "download"
                                               ELSE "completeSync"]
                 ELSE RemoveAt(cycles, i)
  /\ hist' = NoEvent
  /\ UNCHANGED <<handler, serverVars, reqs, local, watcherVars, lastSyncAt, unlinked,
                 srvDeleted>>

\* the answer of POST /sync/init arrives, or the call throws; serverTime is the
\* server's clock: no stamp set before is greater, every stamp set later is
InitSync(i, netOk) ==
  LET changed == ChangedFiles(DeviceUser, cycles[i].since) IN
  /\ cycles[i].pc = "initSync"
  /\ cycles' = IF netOk
                 THEN [cycles EXCEPT ![i].changedFiles = changed,
                                     ![i].serverTime = now,
                                     ![i].session = SessionId(cycles),
                                     ![i].pc = IF Len(changed) > 0 THEN "download"
                                               ELSE "completeSync"]
                 ELSE RemoveAt(cycles, i)
  /\ hist' = NoEvent
  /\ UNCHANGED <<handler, serverVars, reqs, local, watcherVars, lastSyncAt, unlinked,
                 srvDeleted>>

\* downloadFileFromServer without its try / catch: a failed download ends the cycle
DownloadFileFromServer_Rethrow(i, netOk) ==
  LET fileId == Head(cycles[i].changedFiles)
      rest == Tail(cycles[i].changedFiles)
      fileMetadata == files[fileId]
      localPath == LocalPath(fileMetadata.file_path)
      body == ServeDownload(DeviceUser, fileId)
      next == IF rest = <<>> THEN "completeSync" ELSE "download"
  IN
  /\ cycles[i].pc = "download"
  /\ IF SameSize(local[localPath], fileMetadata)
       THEN /\ netOk
            /\ cycles' = [cycles EXCEPT ![i].changedFiles = rest, ![i].pc = next]
            /\ hist' = [NoEvent EXCEPT !.evs = {"skipped"}, !.ids = {fileId}]
            /\ UNCHANGED <<local, uploadQueue, timers, unlinked, srvDeleted>>
       ELSE IF netOk /\ body # NoFile
         THEN \* api.downloadFile wrote the file; chokidar reports 'add' / 'change'
              /\ local' = [local EXCEPT ![localPath] = body]
              /\ FileWritten(localPath)
              /\ cycles' = [cycles EXCEPT ![i].changedFiles = rest, ![i].pc = next]
              /\ unlinked' = unlinked \ RowsAt(files, localPath)
              /\ srvDeleted' = srvDeleted \ {localPath}
              /\ hist' = [NoEvent EXCEPT !.evs = {"downloaded"}, !.ids = {fileId}]
         ELSE \* 404, or the request failed: thrown on to performSync's catch
              /\ cycles' = RemoveAt(cycles, i)
              /\ hist' = NoEvent
              /\ UNCHANGED <<local, uploadQueue, timers, unlinked, srvDeleted>>
  /\ UNCHANGED <<handler, serverVars, reqs, watcher, isProcessing, batch,
                 lastSyncAt>>

\* downloadFileFromServer(file) for the next of syncData.changedFiles; the row's
\* file_path and file_size never change after the INSERT, so the row is read here
DownloadFileFromServer(i, netOk) ==
  LET fileId == Head(cycles[i].changedFiles)
      rest == Tail(cycles[i].changedFiles)
      fileMetadata == files[fileId]
      localPath == LocalPath(fileMetadata.file_path)
      body == ServeDownload(DeviceUser, fileId)
      next == IF rest = <<>> THEN "completeSync" ELSE "download"
  IN
  /\ cycles[i].pc = "download"
  /\ IF SameSize(local[localPath], fileMetadata)
       THEN /\ netOk
            /\ cycles' = [cycles EXCEPT ![i].changedFiles = rest, ![i].pc = next]
            /\ hist' = [NoEvent EXCEPT !.evs = {"skipped"}, !.ids = {fileId}]
            /\ UNCHANGED <<local, uploadQueue, timers, unlinked, srvDeleted>>
       ELSE IF netOk /\ body # NoFile
         THEN \* api.downloadFile wrote the file; chokidar reports 'add' / 'change'
              /\ local' = [local EXCEPT ![localPath] = body]
              /\ FileWritten(localPath)
              /\ cycles' = [cycles EXCEPT ![i].changedFiles = rest, ![i].pc = next]
              /\ unlinked' = unlinked \ RowsAt(files, localPath)
              /\ srvDeleted' = srvDeleted \ {localPath}
              /\ hist' = [NoEvent EXCEPT !.evs = {"downloaded"}, !.ids = {fileId}]
         ELSE \* 404, or the request failed: caught and logged
              /\ cycles' = [cycles EXCEPT ![i].changedFiles = rest, ![i].pc = next,
                                          ![i].failed = @ \cup {fileId}]
              /\ hist' = NoEvent
              /\ UNCHANGED <<local, uploadQueue, timers, unlinked, srvDeleted>>
  /\ UNCHANGED <<handler, serverVars, reqs, watcher, isProcessing, batch,
                 lastSyncAt>>

\* a performSync that assigns lastSyncAt before it awaits api.completeSync
CompleteSync_AssignFirst(i, netOk) ==
  /\ cycles[i].pc = "completeSync"
  /\ cycles' = RemoveAt(cycles, i)
  /\ lastSyncAt' = cycles[i].serverTime
  /\ hist' = IF netOk
               THEN [NoEvent EXCEPT !.evs = {"completeSync", "synced"},
                                    !.session = cycles[i].session,
                                    !.ids = cycles[i].failed,
                                    !.gone = cycles[i].gone \cap unlinked,
                                    !.deleted = cycles[i].deleted \cap srvDeleted]
               ELSE [NoEvent EXCEPT !.evs = {"completeSync"},
                                    !.session = cycles[i].session]
  /\ UNCHANGED <<handler, serverVars, reqs, local, watcherVars, unlinked, srvDeleted>>

\* api.completeSync(syncData.session.id): the answer of POST /sync/:id/complete
\* arrives (lastSyncAt = syncData.serverTime), or the call throws
CompleteSync(i, netOk) ==
  /\ cycles[i].pc = "completeSync"
  /\ cycles' = RemoveAt(cycles, i)
  /\ IF netOk
       THEN /\ lastSyncAt' = cycles[i].serverTime
            /\ hist' = [NoEvent EXCEPT !.evs = {"completeSync", "synced"},
                           !.session = cycles[i].session,
                           !.ids = cycles[i].failed,
                           !.gone = cycles[i].gone \cap unlinked,
                           !.deleted = cycles[i].deleted \cap srvDeleted]
       ELSE /\ hist' = [NoEvent EXCEPT !.evs = {"completeSync"},
                                       !.session = cycles[i].session]
            /\ UNCHANGED lastSyncAt
  /\ UNCHANGED <<handler, serverVars, reqs, local, watcherVars, unlinked, srvDeleted>>

(* --------------------- another client of the same user ----------------- *)
\* another device uploads a file (api.uploadFile) and the server stores it
RemoteUpload(relativePath, buffer) ==
  /\ UploadStatus(DeviceUser, relativePath, buffer) = 201
  /\ ServeUpload(DeviceUser, relativePath, buffer)
  /\ srvDeleted' = srvDeleted \ {relativePath}
  /\ hist' = NoEvent
  /\ UNCHANGED <<handler, reqs, local, watcherVars, syncVars, unlinked>>

\* another client deletes a record (api.deleteFile)
RemoteDelete(fileId) ==
  LET localPath == LocalPath(files[fileId].file_path) IN
  /\ SelectById(files, fileId, DeviceUser) # {}
  /\ ServeDelete(DeviceUser, fileId)
  /\ srvDeleted' =
       IF /\ local[localPath] # NoFile
          /\ calculateFileHash(local[localPath]) = files[fileId].file_hash
          /\ \A j \in ActiveRows(files) :
               j # fileId => LocalPath(files[j].file_path) # localPath
         THEN srvDeleted \cup {localPath}
         ELSE srvDeleted
  /\ hist' = NoEvent
  /\ UNCHANGED <<handler, reqs, local, watcherVars, syncVars, unlinked>>

\* the watcher alone: the device's files, the upload queue and its uploads
NextWatcher ==
  \/ StartWatcher
  \/ StopWatcher
  \/ \E p \in RelPaths, c \in Contents : UserWrite(p, c)
  \/ \E p \in RelPaths : UserUnlink(p)
  \/ ProcessUploadQueue
  \/ \E ok \in BOOLEAN : BatchFile(ok)
  \/ BatchDelay

\* periodic sync alone (startWatcher not called, the user leaves the directory
\* alone), beside another client
NextSync ==
  \/ PerformSync
  \/ \E i \in 1..MaxCycles, ok \in BOOLEAN : i <= Len(cycles) /\ InitSync(i, ok)
  \/ \E i \in 1..MaxCycles, ok \in BOOLEAN :
       i <= Len(cycles) /\ DownloadFileFromServer(i, ok)
  \/ \E i \in 1..MaxCycles, ok \in BOOLEAN : i <= Len(cycles) /\ CompleteSync(i, ok)
  \/ \E p \in RelPaths, c \in Contents : RemoteUpload(p, c)
  \/ \E f \in 1..MaxUuids : f <= Len(files) /\ RemoteDelete(f)

\* the whole client on one watched file, beside another client; the sync interval
\* is longer than a cycle (overlapping cycles are SpecSync's)
OnePath == {<<"a.txt">>}

NextClient ==
  \/ StartWatcher
  \/ StopWatcher
  \/ \E p \in OnePath, c \in Contents : UserWrite(p, c)
  \/ \E p \in OnePath : UserUnlink(p)
  \/ ProcessUploadQueue
  \/ \E ok \in BOOLEAN : BatchFile(ok)
  \/ BatchDelay
  \/ cycles = <<>> /\ PerformSync
  \/ \E i \in 1..MaxCycles, ok \in BOOLEAN : i <= Len(cycles) /\ InitSync(i, ok)
  \/ \E i \in 1..MaxCycles, ok \in BOOLEAN :
       i <= Len(cycles) /\ DownloadFileFromServer(i, ok)
  \/ \E i \in 1..MaxCycles, ok \in BOOLEAN : i <= Len(cycles) /\ CompleteSync(i, ok)
  \/ \E p \in OnePath, c \in Contents : RemoteUpload(p, c)
  \/ \E f \in 1..MaxUuids : f <= Len(files) /\ RemoteDelete(f)

\* watcher and periodic sync with no user at the device (the watched directory
\* changes only by downloads), beside another client
NextEcho ==
  \/ StartWatcher
  \/ ProcessUploadQueue
  \/ \E ok \in BOOLEAN : BatchFile(ok)
  \/ BatchDelay
  \/ cycles = <<>> /\ PerformSync
  \/ \E i \in 1..MaxCycles, ok \in BOOLEAN : i <= Len(cycles) /\ InitSync(i, ok)
  \/ \E i \in 1..MaxCycles, ok \in BOOLEAN :
       i <= Len(cycles) /\ DownloadFileFromServer(i, ok)
  \/ \E i \in 1..MaxCycles, ok \in BOOLEAN : i <= Len(cycles) /\ CompleteSync(i, ok)
  \/ \E p \in RelPaths, c \in Contents : RemoteUpload(p, c)
  \/ \E f \in 1..MaxUuids : f <= Len(files) /\ RemoteDelete(f)

NextServer ==
  \/ \E s \in Slots, u \in Users, p \in RelPaths, c \in Contents, l \in LocalUrls :
       UploadSelect(s, u, p, c, l)
  \/ \E s \in Slots, ok \in BOOLEAN : UploadSetLocalUrl(s, ok)
  \/ \E s \in Slots, ok \in BOOLEAN : UploadPutObject(s, ok)
  \/ \E s \in Slots, ok \in BOOLEAN : UploadInsert(s, ok)
  \/ \E s \in Slots, u \in Users, f \in 1..MaxUuids : DownloadSelect(s, u, f)
  \/ \E s \in Slots, ok \in BOOLEAN : DownloadPresign(s, ok)
  \/ \E s \in Slots, u \in Users : ListFiles(s, u)
  \/ \E s \in Slots, u \in Users, f \in 1..MaxUuids : DeleteSelect(s, u, f)
  \/ \E s \in Slots, ok \in BOOLEAN : DeleteRemoveObject(s, ok)
  \/ \E s \in Slots, ok \in BOOLEAN : DeleteUpdate(s, ok)

\* the server answering one request after the other, of any user
NextRequests ==
  \/ \E u \in Users, p \in RelPaths, c \in Contents, l \in LocalUrls :
       RequestUpload(u, p, c, l)
  \/ \E u \in Users, f \in 1..MaxUuids : RequestDownload(u, f)
  \/ \E u \in Users : RequestList(u)
  \/ \E u \in Users, f \in 1..MaxUuids : RequestDelete(u, f)

Init ==
  /\ handler \in {1, 2}
  /\ files = <<>>
  /\ objects = {}
  /\ now = 1
  /\ nextUuid = 0
  /\ reqs = [s \in Slots |-> NoReq]
  /\ local = [p \in RelPaths |-> NoFile]
  /\ watcher = "null"
  /\ uploadQueue = <<>>
  /\ isProcessing = FALSE
  /\ timers = 0
  /\ batch = NoBatch
  /\ lastSyncAt = 0
  /\ cycles = <<>>
  /\ unlinked = {}
  /\ srvDeleted = {}
  /\ hist = NoEvent

SpecServer == Init /\ [][NextServer]_vars

SpecWatcher == Init /\ [][NextWatcher]_vars

SpecSync == Init /\ [][NextSync]_vars

SpecClient == Init /\ [][NextClient]_vars

SpecRequests == Init /\ [][NextRequests]_vars

SpecEcho == Init /\ [][NextEcho]_vars

(* ============================== properties ============================= *)
\* the watcher has nothing left to do unless a new file-system event arrives
WatcherQuiet == timers = 0 /\ ~isProcessing

\* C1: at most one performSync cycle of the device is in progress at any time
C1_OneCycleAtATime == Len(cycles) <= 1

\* C2: queued work is never stranded: once no timer is pending and no batch runs,
\* nothing is left in uploadQueue (no step but a new event could take it)
C2_NoStrandedPath == WatcherQuiet => uploadQueue = <<>>

\* C3: when the server has answered the upload of a changed file whose path had an
\* active record with another hash, the active records of that path are exactly
\* one kind: they carry the new hash, and there is one
C3_ChangeReplacesRecord ==
  ("upload" \in hist.evs
     /\ \E i \in hist.old :
          files[i].file_hash # calculateFileHash(local[hist.path]))
  => LET rows == SelectByPath(files, DeviceUser, FullPathOf(hist.path))
     IN /\ rows # {}
        /\ \A i \in rows : files[i].file_hash = calculateFileHash(local[hist.path])

\* C4: when a cycle that started after the user removed a watched file has
\* completed and the watcher has nothing left to do, the record the server held
\* for that file when it was removed is no longer active
C4_UnlinkPropagates ==
  ("synced" \in hist.evs /\ WatcherQuiet /\ uploadQueue = <<>>)
  => \A f \in hist.gone : files[f].status # "active"

\* C5: when a cycle that started after the record of a file the device holds was
\* deleted on the server has completed, the device no longer holds the file
C5_ServerDeleteRemovesLocal ==
  "synced" \in hist.evs => \A p \in hist.deleted : local[p] = NoFile

\* C6: lastSyncAt does not advance past a change that was not materialized: after
\* a completed cycle, a file whose download failed in it and that the device still
\* lacks is still newer than lastSyncAt, so the next initSync reports it again
C6_FailedDownloadRetried ==
  "synced" \in hist.evs
  => \A f \in hist.ids :
       (/\ files[f].status = "active"
        /\ calculateFileHash(local[LocalPath(files[f].file_path)]) # files[f].file_hash)
       => files[f].updated_at > lastSyncAt

\* C7: a path whose upload failed in a batch is in uploadQueue when the batch ends
C7_FailedUploadStaysQueued ==
  "batchEnd" \in hist.evs => \A p \in hist.failed : p \in SeqRange(uploadQueue)

\* C8: a download is skipped only when the local file has the content of the
\* server's file, never on equal size alone
C8_NoSkipOnSizeAlone ==
  "skipped" \in hist.evs
  => \A f \in hist.ids :
       calculateFileHash(local[LocalPath(files[f].file_path)]) = files[f].file_hash

\* C9: hash-keyed upload handler: at most one active record per user and content
\* hash, under every interleaving of upload requests
C9_OneRecordPerContent ==
  handler = 2
  => \A u \in Users, c \in Contents :
       Cardinality(SelectByHash(files, u, calculateFileHash(c))) <= 1

\* C10: hash-keyed upload handler: once the upload of a file is answered 2xx, every
\* active record of the user with the same content at another path has a
\* companion: an active record at the uploaded path naming the same object
C10_SecondPathSharesObject ==
  (handler = 2 /\ "upload" \in hist.evs /\ hist.status \in {200, 201})
  => \A a \in SelectByHash(files, DeviceUser, calculateFileHash(local[hist.path])) :
       files[a].file_path # FullPathOf(hist.path)
       => \E b \in SelectByPath(files, DeviceUser, FullPathOf(hist.path)) :
            files[b].minio_key = files[a].minio_key

\* C11: every user has at most one active file record per file_path, in every
\* reachable server state and under every interleaving of upload requests
C11_OneRecordPerPath ==
  \A i, j \in ActiveRows(files) :
    (files[i].user_id = files[j].user_id /\ files[i].file_path = files[j].file_path)
    => i = j

\* the step is one of delete request s: its removeObject or its UPDATE
DeleteStep(s) == reqs[s].kind = "delete" /\ reqs'[s] # reqs[s]

\* C12 (as stated): DELETE /:fileId does not physically remove a stored object: no
\* step of a delete request changes the object store
C12_DeleteKeepsObject ==
  [][\A s \in Slots : DeleteStep(s) => objects' = objects]_vars

\* C12 (amended): a delete request removes from the object store the object its
\* record's minio_key names and no other object; when its UPDATE is done, the
\* record is marked deleted, its object is gone and no other record has changed
C12_DeleteRemovesOwnObject ==
  [][\A s \in Slots :
       DeleteStep(s)
       => /\ objects' \subseteq objects
          /\ \A o \in objects \ objects' : o.key = files[reqs[s].fileId].minio_key
          /\ files' # files
             => /\ files'[reqs[s].fileId].status = "deleted"
                /\ \A o \in objects' : o.key # files[reqs[s].fileId].minio_key
                /\ \A i \in 1..Len(files) :
                     i # reqs[s].fileId => files'[i] = files[i]]_vars

\* C12 witness: a record is marked deleted and its object is gone while another
\* record's object is still stored
C12_DeletedWithObjectGone ==
  \E i, j \in 1..Len(files) :
    /\ files[i].status = "deleted"
    /\ \A o \in objects : o.key # files[i].minio_key
    /\ files[j].status = "active"
    /\ \E o \in objects : o.key = files[j].minio_key

\* C13: deleting one file record never removes an object another record still
\* points to: over every step of a delete request, the object of every other
\* active record (of any user) that was in the object store is still in it
C13_DeleteSparesOtherObjects ==
  [][\A s \in Slots :
       DeleteStep(s)
       => \A j \in ActiveRows(files) :
            (j # reqs[s].fileId /\ \E o \in objects : o.key = files[j].minio_key)
            => \E o \in objects' : o.key = files[j].minio_key]_vars

\* C13 witness: a delete request has removed its record's object while another
\* active record, of the same user and with the same filename, has its object
C13_DeleteBesideOtherRecord ==
  \E s \in Slots, j \in ActiveRows(files) :
    /\ reqs[s].kind = "delete" /\ reqs[s].pc = "update"
    /\ \A o \in objects : o.key # reqs[s].key
    /\ j # reqs[s].fileId
    /\ files[j].user_id = reqs[s].user
    /\ files[j].filename = files[reqs[s].fileId].filename
    /\ \E o \in objects : o.key = files[j].minio_key

\* C14: in every reachable state, the states between the steps of in-flight upload
\* and delete requests included, the minio_key of every active file record names
\* an object present in the object store
C14_ActiveRecordHasObject ==
  \A i \in ActiveRows(files) : \E o \in objects : o.key = files[i].minio_key

\* C15: delete is idempotent: a DELETE /:fileId of a user for a record of theirs
\* that an earlier DELETE has marked deleted is answered 404 and changes no file
\* record and no stored object
C15_DeleteIdempotent ==
  [][\A f \in 1..Len(files) :
       (/\ "delete" \in hist'.evs
        /\ hist'.ids = {f}
        /\ files[f].user_id = hist'.user
        /\ files[f].status = "deleted")
       => (hist'.status = 404 /\ files' = files /\ objects' = objects)]_vars

\* C15 witness: the second DELETE of a user's record has been answered
C15_SecondDeleteAnswered ==
  /\ "delete" \in hist.evs
  /\ hist.status = 404
  /\ \E f \in hist.ids :
       f <= Len(files) /\ files[f].status = "deleted" /\ files[f].user_id = hist.user

\* C16: access URLs are never persisted: no file record holds a presigned or
\* otherwise generated object URL, only the permanent minio_key
C16_NoUrlPersisted ==
  \A i \in 1..Len(files) : files[i].s3_url = NoS3Url

C18_UserIsolation ==
  [][/\ \A f \in 1..Len(files) :
          (/\ hist'.evs \cap {"download", "delete"} # {}
           /\ hist'.ids = {f}
           /\ files[f].user_id # hist'.user)
          => /\ hist'.status = 404
             /\ hist'.url = NoS3Url
             /\ files' = files
             /\ objects' = objects
     /\ "list" \in hist'.evs
        => /\ \A i \in hist'.ids :
                files[i].user_id = hist'.user /\ files[i].status = "active"
           /\ files' = files
     /\ "upload" \in hist'.evs
        => /\ \A i \in hist'.ids : files'[i].user_id = hist'.user
           /\ \A i \in 1..Len(files) :
                files[i].user_id # hist'.user => files'[i] = files[i]
           /\ \A o \in objects : o.key.user # hist'.user => o \in objects']_vars

\* C18 witness: two users hold active records of the same content, and one of them
\* has asked to download or delete the other's record
C18_CrossUserRequest ==
  /\ hist.evs \cap {"download", "delete"} # {}
  /\ \E f \in hist.ids, g \in ActiveRows(files) :
       /\ f \in ActiveRows(files)
       /\ files[f].user_id # hist.user
       /\ files[g].user_id = hist.user
       /\ files[g].file_hash = files[f].file_hash

\* nothing is left to do on the device: no timer, no batch, no queued path, no cycle
\* in flight, and the next initSync would report no changed file; without a new
\* change, every later cycle is empty and this state lasts forever
SyncStable ==
  /\ WatcherQuiet
  /\ uploadQueue = <<>>
  /\ cycles = <<>>
  /\ ChangedFiles(DeviceUser, lastSyncAt) = <<>>

\* the (path, content) pairs of the watched directory, content by its hash
LocalPairs ==
  {<<p, calculateFileHash(local[p])>> : p \in {q \in RelPaths : local[q] # NoFile}}

\* the (path, content) pairs of the user's active server records
ServerPairs ==
  {<<LocalPath(files[i].file_path), files[i].file_hash>> :
     i \in SelectList(files, DeviceUser)}

\* C19: convergence: once changes have stopped and the upload-queue runs and sync
\* cycles have nothing left to do, the watched directory holds exactly the
\* (path, content) pairs of the user's active server records
C19_Convergence == SyncStable => LocalPairs = ServerPairs

UploadStarts ==
  /\ batch.pc = "file"
  /\ batch' # batch
  /\ local[Head(batch.files)] # NoFile

\* C22: cancellation abandons queued work: once stopWatcher() has returned, no
\* upload is started, neither by a debounce timer scheduled before nor by the
\* remaining iterations of a batch in progress
C22_StopAbandonsQueue == [][watcher = "closed" => ~UploadStarts]_vars

\* C23: only differences are transferred: a cycle whose initSync reports an empty
\* changedFiles list goes straight to completeSync; a cycle at completeSync has
\* nothing left to download and its next step ends it; and the watched directory
\* changes only by the download of the file at the head of a cycle's list
C23_EmptyListNoDownload ==
  /\ [](\A i \in 1..Len(cycles) :
          cycles[i].pc = "completeSync" => cycles[i].changedFiles = <<>>)
  /\ [][/\ \A i \in 1..Len(cycles) :
             /\ (/\ cycles[i].pc = "initSync"
                 /\ ChangedFiles(DeviceUser, cycles[i].since) = <<>>
                 /\ Len(cycles') = Len(cycles)
                 /\ cycles'[i] # cycles[i])
                => (cycles'[i].pc = "completeSync" /\ local' = local)
             /\ (cycles[i].pc = "completeSync" /\ Len(cycles') >= Len(cycles))
                => cycles'[i] = cycles[i]
        /\ Len(cycles') < Len(cycles) => local' = local
        /\ local' # local
           => \E i \in 1..Len(cycles) :
                /\ cycles[i].pc = "download"
                /\ hist'.evs = {"downloaded"}
                /\ hist'.ids = {Head(cycles[i].changedFiles)}
                /\ cycles'[i].changedFiles = Tail(cycles[i].changedFiles)]_vars

\* C23 witness: a cycle is at completeSync with an empty list (it has downloaded
\* and skipped nothing and no download failed in it) while the server holds an
\* active file of the user that is older than the cycle's lastSyncAt
C23_EmptyCycleBesideOldFile ==
  \E i \in 1..Len(cycles) :
    /\ cycles[i].pc = "completeSync"
    /\ cycles[i].failed = {}
    /\ cycles[i].since > 0
    /\ \A p \in RelPaths : local[p] = NoFile
    /\ \E f \in SelectList(files, DeviceUser) : files[f].updated_at <= cycles[i].since

NoDuplicates(q) == \A i, j \in 1..Len(q) : q[i] = q[j] => i = j

\* C24: a path queued several times before a batch starts is uploaded at most once
\* in that batch: uploadQueue holds every path once, queueing a path it holds
\* leaves it as it is, and a batch takes each queued path once
C24_QueuedOnce ==
  /\ [](NoDuplicates(uploadQueue) /\ NoDuplicates(batch.files))
  /\ [][/\ timers' > timers
           => /\ SeqRange(uploadQueue) \subseteq SeqRange(uploadQueue')
              /\ Len(uploadQueue') <= Len(uploadQueue) + 1
              /\ uploadQueue' # uploadQueue
                 => uploadQueue'[Len(uploadQueue')] \notin SeqRange(uploadQueue)
        /\ (~isProcessing /\ isProcessing')
           => (batch'.files = uploadQueue /\ uploadQueue' = <<>>)
        /\ (batch.pc = "file" /\ batch' # batch)
           => \A p \in SeqRange(batch'.files) : p # Head(batch.files)]_vars

\* C24 witness: the one path of the batch that has just started was queued twice
\* before it (the timer of the second event is still pending); the directory
\* holds no other file and nothing has been uploaded yet
C24_TwiceQueuedInBatch ==
  /\ batch.pc = "file"
  /\ Len(batch.files) = 1
  /\ batch.failed = {}
  /\ uploadQueue = <<>>
  /\ timers = 1
  /\ files = <<>>
  /\ \A p \in RelPaths : p # Head(batch.files) => local[p] = NoFile
  /\ local[Head(batch.files)] = <<0>>

\* C25: at most one processUploadQueue batch is in progress at any time:
\* isProcessing is true exactly while a batch is in progress; a timer that fires
\* during a batch leaves the batch and the queue alone; and the step that ends a
\* batch, by the last delay, a skipped file or a failed upload, resets isProcessing
C25_OneBatchAtATime ==
  /\ [](isProcessing <=> batch.pc \in {"file", "delay"})
  /\ [](batch.pc = "idle" => batch = NoBatch)
  /\ [][/\ (isProcessing /\ timers' < timers)
           => (batch' = batch /\ uploadQueue' = uploadQueue /\ isProcessing')
        /\ (batch.pc = "delay" /\ batch.files = <<>> /\ batch' # batch)
           => (batch' = NoBatch /\ ~isProcessing')
        /\ (batch.pc = "file" /\ Len(batch.files) = 1 /\ batch' # batch
              /\ batch'.pc # "delay")
           => (batch' = NoBatch /\ ~isProcessing')
        /\ (isProcessing /\ batch' # batch /\ batch'.pc # "idle")
           => /\ isProcessing'
              /\ SeqRange(batch'.files) \subseteq SeqRange(batch.files)]_vars

\* C25 witness: a timer has fired during the batch in progress: a path queued after
\* the batch started is still in uploadQueue and no timer is pending
C25_TimerFiredDuringBatch ==
  /\ isProcessing
  /\ batch.pc = "file"
  /\ uploadQueue # <<>>
  /\ timers = 0

\* C26: within one performSync cycle the order of steps is fixed: a cycle starts
\* with its one initSync call and holds no answer of the server before it returns;
\* it leaves initSync once, for its downloads or for completeSync, and never comes
\* back; the watched directory is written only by a cycle at its downloads; a
\* cycle ends with its one completeSync call (or where initSync throws), made with
\* the session id its own initSync answered; and lastSyncAt is assigned only in
\* the step in which completeSync succeeded, the serverTime of that cycle
C26_CycleOrder ==
  /\ [](\A i, j \in 1..Len(cycles) :
          /\ cycles[i].pc = "initSync"
             => (cycles[i].session = 0 /\ cycles[i].changedFiles = <<>>)
          /\ cycles[i].pc \in {"download", "completeSync"} => cycles[i].session # 0
          /\ (cycles[i].session # 0 /\ cycles[i].session = cycles[j].session) => i = j)
  /\ [][/\ Len(cycles') = Len(cycles)
           => \A i \in 1..Len(cycles) :
                cycles'[i] # cycles[i]
                => \/ /\ cycles[i].pc = "initSync"
                      /\ cycles'[i].pc \in {"download", "completeSync"}
                      /\ local' = local
                   \/ /\ cycles[i].pc = "download"
                      /\ cycles'[i].pc \in {"download", "completeSync"}
                      /\ cycles'[i].session = cycles[i].session
                      /\ cycles'[i].serverTime = cycles[i].serverTime
        /\ Len(cycles') > Len(cycles)
           => /\ SubSeq(cycles', 1, Len(cycles)) = cycles
              /\ Len(cycles') = Len(cycles) + 1
              /\ cycles'[Len(cycles')].pc = "initSync"
        /\ Len(cycles') < Len(cycles)
           => \E i \in 1..Len(cycles) :
                /\ cycles' = RemoveAt(cycles, i)
                /\ \/ cycles[i].pc = "initSync" /\ "completeSync" \notin hist'.evs
                   \/ /\ cycles[i].pc = "completeSync"
                      /\ "completeSync" \in hist'.evs
                      /\ hist'.session = cycles[i].session
        /\ Len(cycles') >= Len(cycles) => "completeSync" \notin hist'.evs
        /\ local' # local
           => \E i \in 1..Len(cycles) :
                cycles[i].pc = "download" /\ cycles'[i] # cycles[i]
        /\ lastSyncAt' # lastSyncAt
           => /\ "synced" \in hist'.evs
              /\ \E i \in 1..Len(cycles) :
                   /\ cycles[i].pc = "completeSync"
                   /\ cycles' = RemoveAt(cycles, i)
                   /\ hist'.session = cycles[i].session
                   /\ lastSyncAt' = cycles[i].serverTime]_vars

\* C26 witness: of two cycles in flight, the one whose initSync was answered second
\* (session 2) has completed and assigned lastSyncAt while the other is still at
\* its downloads
C26_SecondCycleCompleted ==
  /\ "synced" \in hist.evs
  /\ hist.session = 2
  /\ lastSyncAt > 0
  /\ Len(cycles) = 1
  /\ cycles[1].pc = "download"
  /\ cycles[1].session = 1

\* C27: if initSync or completeSync fails in a cycle, lastSyncAt keeps the value it
\* had before the cycle: when the failed cycle is over, lastSyncAt is the value
\* the cycle sent to initSync
C27_FailedCycleKeepsLastSync ==
  [][\A i \in 1..Len(cycles) :
       (/\ cycles[i].pc \in {"initSync", "completeSync"}
        /\ cycles' = RemoveAt(cycles, i)
        /\ "synced" \notin hist'.evs)
       => lastSyncAt' = cycles[i].since]_vars

\* C28: lastSyncAt never moves backwards, also when cycles overlap and finish in
\* another order than they started
C28_LastSyncMonotonic == [][lastSyncAt' >= lastSyncAt]_vars

\* C29: no sync echo: on a device whose user changes nothing, every file of the
\* watched directory was written by a sync download, and the upload attempt its
\* 'add' event raises creates no file record and stores no object
C29_NoSyncEcho ==
  [][("upload" \in hist'.evs /\ batch' # batch)
       => (files' = files /\ objects' = objects)]_vars

\* C30: no orphan objects: in every state in which no request is in flight, every
\* object of the object store is named by the minio_key of an active file record
C30_NoOrphanObject ==
  (\A s \in Slots : reqs[s] = NoReq)
  => \A o \in objects : \E i \in ActiveRows(files) : files[i].minio_key = o.key

\* C31: first upload handler: an upload whose target path (filePath joined with
\* the original file name) has an active record of the same user is answered 409
\* and leaves the server unchanged: no object stored, no record inserted or changed
C31_ExistingPathConflict ==
  [][(/\ handler = 1
      /\ "upload" \in hist'.evs
      /\ SelectByPath(files, hist'.user, FullPathOf(hist'.path)) # {})
     => /\ hist'.status = 409
        /\ hist'.ids = {}
        /\ files' = files
        /\ objects' = objects
        /\ nextUuid' = nextUuid]_vars

\* C31 witness: the first handler has answered 409 to an upload to a path that
\* holds an active record of the user, beside a deleted record of the same path
C31_ConflictAnswered ==
  /\ handler = 1
  /\ "upload" \in hist.evs
  /\ hist.status = 409
  /\ \E i, j \in 1..Len(files) :
       /\ files[i].user_id = hist.user /\ files[j].user_id = hist.user
       /\ files[i].file_path = FullPathOf(hist.path)
       /\ files[j].file_path = FullPathOf(hist.path)
       /\ files[i].status = "deleted"
       /\ files[j].status = "active"

\* C32: no download response carries a URL for an object that is not in the store:
\* a download request is answered with a downloadUrl only if, when it is answered,
\* the record is active and the object its minio_key names is present, under
\* every interleaving with a DELETE of the same file; and a download request for
\* a record a DELETE has marked deleted gets no further than the SELECT (404)
C32_UrlOnlyForStoredObject ==
  [][/\ ("download" \in hist'.evs /\ hist'.status = 200)
        => \A f \in hist'.ids :
             /\ files[f].status = "active"
             /\ hist'.url = generateS3Url(files[f].minio_key)
             /\ \E o \in objects : o.key = files[f].minio_key
     /\ \A s \in Slots :
          (reqs[s] = NoReq /\ reqs'[s].kind = "download")
          => files[reqs'[s].fileId].status = "active"]_vars

====
